---- MODULE Spec2Model ----
(***************************************************************************)
(* Model of the AC-3 / forward-checking Sudoku solver of src/ac3.py.       *)
(*                                                                         *)
(* The solver works on a csp object (module csp, not part of src/) that    *)
(* holds csp.domains, one candidate set per cell, and csp.neighbors, the   *)
(* peers of each cell.  main() runs ac3(csp) and, when that returns False, *)
(* backtrack(csp) on the same store.                                       *)
(*                                                                         *)
(* The grid is scaled: boxes are BoxSize x BoxSize with BoxSize = 2, so    *)
(* the grid is 4 x 4 with digits 1..4 where the program has 9 x 9 and      *)
(* 1..9.  Everything else follows the code statement by statement.         *)
(***************************************************************************)
EXTENDS Integers, Sequences, FiniteSets

\* Side of a box (3 in the program; scaled).
BoxSize == 2

\* Side of the grid: range(9) in the program.
N == BoxSize * BoxSize

\* The candidate digits of a blank cell.
Digits == 1..N

\* Cells are coordinate pairs (row, col), 0-based as in the program.
Cells == (0..(N-1)) \X (0..(N-1))

\* The cell at a row-major position: the order of "for row.. for col..".
CellAt(i) == << i \div N, i % N >>

\* Number of cells.
NumCells == N * N

----------------------------------------------------------------------------
(* Generic helpers on sequences and sets *)

Range(s) == { s[i] : i \in DOMAIN s }

Min(S) == CHOOSE x \in S : \A y \in S : x <= y

RECURSIVE SetToSeq(_)
\* The elements of a set of integers in ascending order.
SetToSeq(S) == IF S = {} THEN << >>
               ELSE LET m == Min(S) IN << m >> \o SetToSeq(S \ {m})

\* All orders in which the elements of S can be enumerated.
Perms(S) == { s \in [1..Cardinality(S) -> S] : Range(s) = S }

----------------------------------------------------------------------------
(* csp.neighbors and csp.get_all_arcs() *)

SameBox(a, b) == /\ a[1] \div BoxSize = b[1] \div BoxSize
                 /\ a[2] \div BoxSize = b[2] \div BoxSize

\* The peers of a cell: same row, same column or same box, itself excluded.
IsNeighbor(a, b) == /\ a # b
                    /\ \/ a[1] = b[1]
                       \/ a[2] = b[2]
                       \/ SameBox(a, b)

RECURSIVE PeersFrom(_, _)
PeersFrom(c, i) == IF i >= NumCells THEN << >>
                   ELSE (IF IsNeighbor(c, CellAt(i)) THEN << CellAt(i) >> ELSE << >>)
                        \o PeersFrom(c, i + 1)

RECURSIVE NeighborRow(_, _)
NeighborRow(r, c) == IF c >= N THEN << >>
                     ELSE << PeersFrom(<< r, c >>, 0) >> \o NeighborRow(r, c + 1)

RECURSIVE NeighborRows(_)
NeighborRows(r) == IF r >= N THEN << >>
                   ELSE << NeighborRow(r, 0) >> \o NeighborRows(r + 1)

\* csp.neighbors: a list of rows, each a list of the peer lists of its cells.
Neighbors == NeighborRows(0)

\* csp.neighbors[row][col]: the peers of a cell as an ordered sequence.
NeighborsOf(c) == Neighbors[c[1] + 1][c[2] + 1]

RECURSIVE ArcsOf(_, _)
ArcsOf(c, k) == IF k > Len(NeighborsOf(c)) THEN << >>
                ELSE << << c, NeighborsOf(c)[k] >> >> \o ArcsOf(c, k + 1)

RECURSIVE ArcsFrom(_)
ArcsFrom(i) == IF i >= NumCells THEN << >>
               ELSE ArcsOf(CellAt(i), 1) \o ArcsFrom(i + 1)

\* csp.get_all_arcs(): every ordered pair (Xi, Xj) of neighbouring cells.
GetAllArcs == ArcsFrom(0)

----------------------------------------------------------------------------
(* The puzzles the solver is started on *)

\* Number of cells of FreeOrder whose content the input chooses freely.
NumFree == 2

\* The grid the inputs are drawn around, as read_puzzle returns it: a list of
\* rows of digits, 0 for a blank cell.
BasePuzzle == << << 0, 0, 0, 0 >>,
                 << 4, 1, 0, 3 >>,
                 << 1, 0, 0, 0 >>,
                 << 0, 0, 0, 0 >> >>

\* Cells whose content varies from input to input.
FreeOrder == << << 3, 0 >>, << 3, 3 >>, << 3, 2 >> >>

FreeCells == { FreeOrder[i] : i \in 1..NumFree }

\* The inputs: BasePuzzle with any digit, or a blank, in each free cell.
Puzzles == { [ r \in 1..N |-> [ c \in 1..N |->
                 IF << r - 1, c - 1 >> \in FreeCells THEN g[<< r - 1, c - 1 >>]
                 ELSE BasePuzzle[r][c] ] ] :
             g \in [ FreeCells -> 0..N ] }

\* SudokuCSP(puzzle).domains: a fixed digit gives a singleton, a blank cell
\* gives the full digit set.
InitialDomains(puzzle) == [ c \in Cells |->
                              IF puzzle[c[1] + 1][c[2] + 1] = 0 THEN Digits
                              ELSE { puzzle[c[1] + 1][c[2] + 1] } ]

----------------------------------------------------------------------------
(* The solutions of a store *)

RECURSIVE Extend(_, _)
\* The ways to give digits to the cells up to row-major position i - 1 so
\* that neighbouring cells differ, extended to the whole grid.
Extend(gs, i) ==
    IF i >= NumCells THEN gs
    ELSE Extend(UNION { { Append(g, v) :
                            v \in { d \in Digits :
                                      \A j \in 0..(i - 1) :
                                          IsNeighbor(CellAt(i), CellAt(j)) => g[j + 1] # d } }
                        : g \in gs },
                i + 1)

\* Every complete assignment that gives neighbouring cells different digits,
\* as the sequence of its digits in row-major order.
AllGrids == Extend({ << >> }, 0)

\* The assignment picks each cell's digit from the cell's domain.
Within(g, dom) == \A i \in 0..(NumCells - 1) : g[i + 1] \in dom[CellAt(i)]

\* The solutions of a store: the complete assignments within it.
Solutions(dom) == { g \in AllGrids : Within(g, dom) }

----------------------------------------------------------------------------
(* State *)

VARIABLES
    initial,   \* csp.domains as SudokuCSP built it, before ac3 ran
    domains,   \* csp.domains: cell -> set of candidate digits
    pc,        \* where main() is: "ac3", "main", "search", "done"
    queue,     \* ac3's deque of arcs
    arc,       \* (xi, xj), the arc ac3 popped last; NoArc before the first
    revised,   \* what the last call of revise returned
    ac3ret,    \* what ac3 returned: "none" while it has not, else "True"/"False"
    ac3exit,   \* the return statement ac3 left by: "none", "empty", "solved", "incomplete"
    stack,     \* the frames of backtrack, outermost first
    ret,       \* value being returned by the backtrack call that just ended
    entered,   \* the store as it was when that call was entered
    result,    \* what main() printed at the end
    solutions  \* the solutions of the initial store (history, never changes)

vars == << initial, domains, pc, queue, arc, revised, ac3ret, ac3exit, stack, ret, entered, result, solutions >>

----------------------------------------------------------------------------
(* revise *)

\* A faulty revise loop: it takes the symmetric difference of the two
\* domains where revise takes the difference.
ReviseLoopSymDiff(vals, xiDom, xjDom, rev) ==
    IF Cardinality(xjDom) = 1
    THEN [ dom |-> (xiDom \ xjDom) \cup (xjDom \ xiDom), revised |-> TRUE ]
    ELSE [ dom |-> xiDom, revised |-> rev ]

RECURSIVE ReviseLoopAnyShared(_, _, _, _)
\* A faulty revise loop: it prunes every value Xj also has, without asking
\* that Xj be a singleton.
ReviseLoopAnyShared(vals, xiDom, xjDom, rev) ==
    IF vals = << >> THEN [ dom |-> xiDom, revised |-> rev ]
    ELSE LET value == Head(vals) IN
         IF value \in xjDom
         THEN ReviseLoopAnyShared(Tail(vals), xiDom \ {value}, xjDom, TRUE)
         ELSE ReviseLoopAnyShared(Tail(vals), xiDom, xjDom, rev)

RECURSIVE ReviseLoopInverted(_, _, _, _)
\* A faulty revise loop: with Xj a singleton it prunes the values Xj does
\* not have.
ReviseLoopInverted(vals, xiDom, xjDom, rev) ==
    IF vals = << >> THEN [ dom |-> xiDom, revised |-> rev ]
    ELSE LET value == Head(vals) IN
         IF Cardinality(xjDom) = 1 /\ value \notin xjDom
         THEN ReviseLoopInverted(Tail(vals), xiDom \ {value}, xjDom, TRUE)
         ELSE ReviseLoopInverted(Tail(vals), xiDom, xjDom, rev)

RECURSIVE ReviseLoop(_, _, _, _)
\* The loop of revise over the copy of Xi's domain: vals is what is left of
\* the copy, xiDom the domain being pruned.
ReviseLoop(vals, xiDom, xjDom, rev) ==
    IF vals = << >> THEN [ dom |-> xiDom, revised |-> rev ]
    ELSE LET value == Head(vals) IN
         IF Cardinality(xjDom) = 1 /\ value \in xjDom
         THEN ReviseLoop(Tail(vals), xiDom \ {value}, xjDom, TRUE)
         ELSE ReviseLoop(Tail(vals), xiDom, xjDom, rev)

\* revise(csp, xi, xj): the store afterwards and the value returned.
Revise(dom, xi, xj) ==
    LET r == ReviseLoop(SetToSeq(dom[xi]), dom[xi], dom[xj], FALSE)
    IN  [ domains |-> [ dom EXCEPT ![xi] = r.dom ], revised |-> r.revised ]

----------------------------------------------------------------------------
(* ac3 *)

\* No arc popped yet.
NoArc == << >>

RECURSIVE EnqueueLoopSwapped(_, _, _, _)
\* A variant of the loop that appends (xi, xk), the arc in the other direction.
EnqueueLoopSwapped(q, xi, xj, k) ==
    IF k > Len(NeighborsOf(xi)) THEN q
    ELSE LET xk == NeighborsOf(xi)[k] IN
         EnqueueLoopSwapped(IF xk # xj THEN Append(q, << xi, xk >>) ELSE q, xi, xj, k + 1)

RECURSIVE EnqueueLoop(_, _, _, _)
\* The loop of ac3 over the neighbours xk of xi: append (xk, xi) unless xk = xj.
EnqueueLoop(q, xi, xj, k) ==
    IF k > Len(NeighborsOf(xi)) THEN q
    ELSE LET xk == NeighborsOf(xi)[k] IN
         EnqueueLoop(IF xk # xj THEN Append(q, << xk, xi >>) ELSE q, xi, xj, k + 1)

\* A faulty popleft: it reads the first arc and leaves it in the queue.
PopLeftPeek(q) == [ arc |-> Head(q), queue |-> q ]

\* queue.popleft(): the arc taken and the queue left.
PopLeft(q) == [ arc |-> Head(q), queue |-> Tail(q) ]

\* A faulty test: it asks for at most one value where ac3 asks for exactly one.
AllAtMostOne(dom) == \A i \in 0..(NumCells - 1) : Cardinality(dom[CellAt(i)]) <= 1

\* all(len(csp.domains[row][col]) == 1 for row.. for col..)
AllSingleton(dom) == \A i \in 0..(NumCells - 1) : Cardinality(dom[CellAt(i)]) = 1

\* One turn of the while loop in which revise returns False.
Ac3Unchanged ==
    /\ pc = "ac3"
    /\ queue # << >>
    /\ LET p  == PopLeft(queue)
           xi == p.arc[1]
           xj == p.arc[2]
           r  == Revise(domains, xi, xj)
       IN  /\ ~r.revised
           /\ domains' = r.domains
           /\ revised' = r.revised
           /\ arc' = p.arc
           /\ queue' = p.queue
    /\ UNCHANGED << solutions, initial, pc, ac3ret, ac3exit, stack, ret, entered, result >>

\* One turn in which revise returns True and Xi keeps a value: the arcs
\* (Xk, Xi) are appended.
Ac3Revised ==
    /\ pc = "ac3"
    /\ queue # << >>
    /\ LET p  == PopLeft(queue)
           xi == p.arc[1]
           xj == p.arc[2]
           r  == Revise(domains, xi, xj)
       IN  /\ r.revised
           /\ r.domains[xi] # {}
           /\ domains' = r.domains
           /\ revised' = r.revised
           /\ arc' = p.arc
           /\ queue' = EnqueueLoop(p.queue, xi, xj, 1)
    /\ UNCHANGED << solutions, initial, pc, ac3ret, ac3exit, stack, ret, entered, result >>

\* One turn in which revise empties Xi's domain: ac3 returns False at once.
Ac3Empty ==
    /\ pc = "ac3"
    /\ queue # << >>
    /\ LET p  == PopLeft(queue)
           xi == p.arc[1]
           xj == p.arc[2]
           r  == Revise(domains, xi, xj)
       IN  /\ r.revised
           /\ r.domains[xi] = {}
           /\ domains' = r.domains
           /\ revised' = r.revised
           /\ arc' = p.arc
           /\ queue' = p.queue
    /\ pc' = "main"
    /\ ac3ret' = "False"
    /\ ac3exit' = "empty"
    /\ UNCHANGED << solutions, initial, stack, ret, entered, result >>

\* The queue is empty and every cell is a singleton: ac3 returns True.
Ac3Solved ==
    /\ pc = "ac3"
    /\ queue = << >>
    /\ AllSingleton(domains)
    /\ pc' = "main"
    /\ ac3ret' = "True"
    /\ ac3exit' = "solved"
    /\ UNCHANGED << solutions, initial, domains, queue, arc, revised, stack, ret, entered, result >>

\* The queue is empty and some cell is not a singleton: ac3 returns False.
Ac3Incomplete ==
    /\ pc = "ac3"
    /\ queue = << >>
    /\ ~AllSingleton(domains)
    /\ pc' = "main"
    /\ ac3ret' = "False"
    /\ ac3exit' = "incomplete"
    /\ UNCHANGED << solutions, initial, domains, queue, arc, revised, stack, ret, entered, result >>

----------------------------------------------------------------------------
(* The heuristics and helpers of the search *)

\* find_empty_cell returns None when no cell has more than one candidate.
NoCell == << >>

RECURSIVE FindLoopLast(_, _, _, _)
\* A variant of the scan that lets a later cell of equal size win (<=).
FindLoopLast(dom, i, minLen, best) ==
    IF i >= NumCells THEN best
    ELSE LET size == Cardinality(dom[CellAt(i)]) IN
         IF 1 < size /\ (best = NoCell \/ size <= minLen)
         THEN FindLoopLast(dom, i + 1, size, CellAt(i))
         ELSE FindLoopLast(dom, i + 1, minLen, best)

RECURSIVE FindLoopAny(_, _, _, _)
\* A variant of the scan without the test 1 < domain_size: assigned cells
\* qualify as well.
FindLoopAny(dom, i, minLen, best) ==
    IF i >= NumCells THEN best
    ELSE LET size == Cardinality(dom[CellAt(i)]) IN
         IF 0 < size /\ (best = NoCell \/ size < minLen)
         THEN FindLoopAny(dom, i + 1, size, CellAt(i))
         ELSE FindLoopAny(dom, i + 1, minLen, best)

RECURSIVE FindLoop(_, _, _, _)
\* The scan of find_empty_cell from row-major position i on; best = NoCell
\* stands for min_len = inf.
FindLoop(dom, i, minLen, best) ==
    IF i >= NumCells THEN best
    ELSE LET size == Cardinality(dom[CellAt(i)]) IN
         IF 1 < size /\ (best = NoCell \/ size < minLen)
         THEN FindLoop(dom, i + 1, size, CellAt(i))
         ELSE FindLoop(dom, i + 1, minLen, best)

\* find_empty_cell(csp)
FindEmptyCell(dom) == FindLoop(dom, 0, 0, NoCell)

RECURSIVE CountLoopAll(_, _, _, _)
\* A variant of the count that also counts the neighbours with one candidate.
CountLoopAll(dom, cell, value, k) ==
    IF k > Len(NeighborsOf(cell)) THEN 0
    ELSE LET nb == NeighborsOf(cell)[k] IN
         (IF value \in dom[nb] THEN 1 ELSE 0)
         + CountLoopAll(dom, cell, value, k + 1)

RECURSIVE CountLoop(_, _, _, _)
CountLoop(dom, cell, value, k) ==
    IF k > Len(NeighborsOf(cell)) THEN 0
    ELSE LET nb == NeighborsOf(cell)[k] IN
         (IF Cardinality(dom[nb]) > 1 /\ value \in dom[nb] THEN 1 ELSE 0)
         + CountLoop(dom, cell, value, k + 1)

\* count_constraints(csp, row, col, value)
CountConstraints(dom, cell, value) == CountLoop(dom, cell, value, 1)

\* order_domain_values(csp, row, col): sorted() is stable, and the order in
\* which a set yields its elements is not fixed by the program, so every
\* enumeration of the domain with non-decreasing key is a possible result.
OrderDomainValues(dom, cell) ==
    { s \in Perms(dom[cell]) :
        \A i \in 1..(Len(s) - 1) :
            CountConstraints(dom, cell, s[i]) <= CountConstraints(dom, cell, s[i + 1]) }

RECURSIVE ValidLoop(_, _, _, _)
ValidLoop(dom, cell, value, k) ==
    IF k > Len(NeighborsOf(cell)) THEN TRUE
    ELSE LET nb == NeighborsOf(cell)[k] IN
         IF Cardinality(dom[nb]) = 1 /\ value \in dom[nb] THEN FALSE
         ELSE ValidLoop(dom, cell, value, k + 1)

\* is_valid(csp, row, col, value)
IsValid(dom, cell, value) == ValidLoop(dom, cell, value, 1)

RECURSIVE ForwardLoopNoStop(_, _, _, _, _)
\* A variant of the loop without the check for an emptied domain.
ForwardLoopNoStop(dom, cell, value, k, removed) ==
    IF k > Len(NeighborsOf(cell))
    THEN [ domains |-> dom, success |-> TRUE, removed |-> removed ]
    ELSE LET nb == NeighborsOf(cell)[k] IN
         IF value \in dom[nb]
         THEN ForwardLoopNoStop([ dom EXCEPT ![nb] = @ \ {value} ], cell, value,
                                k + 1, Append(removed, << nb, value >>))
         ELSE ForwardLoopNoStop(dom, cell, value, k + 1, removed)

RECURSIVE ForwardLoopRecordAll(_, _, _, _, _)
\* A variant of the loop that records every neighbour it scans, whether or
\* not the neighbour held the value.
ForwardLoopRecordAll(dom, cell, value, k, removed) ==
    IF k > Len(NeighborsOf(cell))
    THEN [ domains |-> dom, success |-> TRUE, removed |-> removed ]
    ELSE LET nb == NeighborsOf(cell)[k]
             d2 == [ dom EXCEPT ![nb] = @ \ {value} ]
             r2 == Append(removed, << nb, value >>)
         IN  IF value \in dom[nb] /\ d2[nb] = {}
             THEN [ domains |-> d2, success |-> FALSE, removed |-> r2 ]
             ELSE ForwardLoopRecordAll(d2, cell, value, k + 1, r2)

RECURSIVE ForwardLoop(_, _, _, _, _)
\* The loop of forward_check from the k-th neighbour on.
ForwardLoop(dom, cell, value, k, removed) ==
    IF k > Len(NeighborsOf(cell))
    THEN [ domains |-> dom, success |-> TRUE, removed |-> removed ]
    ELSE LET nb == NeighborsOf(cell)[k] IN
         IF value \in dom[nb]
         THEN LET d2 == [ dom EXCEPT ![nb] = @ \ {value} ]
                  r2 == Append(removed, << nb, value >>)
              IN  IF d2[nb] = {}
                  THEN [ domains |-> d2, success |-> FALSE, removed |-> r2 ]
                  ELSE ForwardLoop(d2, cell, value, k + 1, r2)
         ELSE ForwardLoop(dom, cell, value, k + 1, removed)

\* forward_check(csp, row, col, value)
ForwardCheck(dom, cell, value) == ForwardLoop(dom, cell, value, 1, << >>)

RECURSIVE RestoreDomainsReset(_, _)
\* A variant of restore_domains that resets each recorded cell to all digits.
RestoreDomainsReset(dom, removed) ==
    IF removed = << >> THEN dom
    ELSE RestoreDomainsReset([ dom EXCEPT ![Head(removed)[1]] = Digits ], Tail(removed))

RECURSIVE RestoreDomains(_, _)
\* restore_domains(csp, removed)
RestoreDomains(dom, removed) ==
    IF removed = << >> THEN dom
    ELSE LET e == Head(removed) IN
         RestoreDomains([ dom EXCEPT ![e[1]] = @ \cup { e[2] } ], Tail(removed))

----------------------------------------------------------------------------
(* backtrack *)

(* A frame of backtrack holds its locals: cell (row, col), values (what the
   for loop has still to yield), value (the loop variable), removed (the
   record of the last forward_check) and at, the frame's position:
     "loop"  at the head of the for loop,
     "call"  forward_check succeeded, backtrack(csp) is about to be called,
     "wait"  the recursive call is running,
     "undo"  before line 198, the undo of the attempt.
   entry and pre remember the store at the call's entry and right before the
   last assignment; undone tells that the undo was the frame's last step;
   tried is the last value that passed is_valid (0 before the first). *)

Top == stack[Len(stack)]

SetTop(f) == [ stack EXCEPT ![Len(stack)] = f ]

Pop == SubSeq(stack, 1, Len(stack) - 1)

\* A call of backtrack can start: from main, or from a frame at "call".
CanCall == /\ pc = "search"
           /\ \/ stack = << >> /\ ret = "none"
              \/ stack # << >> /\ Top.at = "call"

\* The stack once the caller, if any, waits for the call.
Waiting == IF stack = << >> THEN stack ELSE SetTop([ Top EXCEPT !.at = "wait" ])

\* backtrack is called and finds no cell with several candidates: return True.
BtCallSolved ==
    /\ CanCall
    /\ FindEmptyCell(domains) = NoCell
    /\ stack' = Waiting
    /\ ret' = "True"
    /\ entered' = domains
    /\ UNCHANGED << solutions, initial, domains, pc, queue, arc, revised, ac3ret, ac3exit, result >>

\* backtrack is called, selects a cell and orders its values.
BtCallSelect ==
    /\ CanCall
    /\ FindEmptyCell(domains) # NoCell
    /\ LET cell == FindEmptyCell(domains) IN
       \E vs \in OrderDomainValues(domains, cell) :
           stack' = Append(Waiting,
                           [ cell |-> cell, values |-> vs, value |-> 0,
                             removed |-> << >>, at |-> "loop",
                             entry |-> domains, pre |-> domains,
                             undone |-> FALSE, tried |-> 0 ])
    /\ UNCHANGED << solutions, initial, domains, pc, queue, arc, revised, ac3ret, ac3exit, ret, entered, result >>

\* The for loop yields a value that is_valid rejects.
BtSkipInvalid ==
    /\ pc = "search"
    /\ stack # << >>
    /\ Top.at = "loop"
    /\ Top.values # << >>
    /\ LET value == Head(Top.values) IN
       /\ ~IsValid(domains, Top.cell, value)
       /\ stack' = SetTop([ Top EXCEPT !.values = Tail(@), !.value = value,
                                       !.undone = FALSE ])
    /\ UNCHANGED << solutions, initial, domains, pc, queue, arc, revised, ac3ret, ac3exit, ret, entered, result >>

\* The for loop yields a valid value: the cell is assigned and forward_check
\* runs; on success backtrack is called next, otherwise the undo follows.
BtAssign ==
    /\ pc = "search"
    /\ stack # << >>
    /\ Top.at = "loop"
    /\ Top.values # << >>
    /\ LET value    == Head(Top.values)
           assigned == [ domains EXCEPT ![Top.cell] = { value } ]
           fc       == ForwardCheck(assigned, Top.cell, value)
       IN  /\ IsValid(domains, Top.cell, value)
           /\ domains' = fc.domains
           /\ stack' = SetTop([ Top EXCEPT !.values = Tail(@), !.value = value,
                                           !.removed = fc.removed,
                                           !.at = IF fc.success THEN "call" ELSE "undo",
                                           !.pre = domains, !.undone = FALSE,
                                           !.tried = value ])
    /\ UNCHANGED << solutions, initial, pc, queue, arc, revised, ac3ret, ac3exit, ret, entered, result >>

\* The recursive call returned True: this call returns True as well.
BtReturnTrue ==
    /\ pc = "search"
    /\ stack # << >>
    /\ Top.at = "wait"
    /\ ret = "True"
    /\ stack' = Pop
    /\ entered' = Top.entry
    /\ UNCHANGED << solutions, initial, domains, pc, queue, arc, revised, ac3ret, ac3exit, ret, result >>

\* The recursive call returned False: go on to the undo.
BtReturnFalse ==
    /\ pc = "search"
    /\ stack # << >>
    /\ Top.at = "wait"
    /\ ret = "False"
    /\ stack' = SetTop([ Top EXCEPT !.at = "undo" ])
    /\ ret' = "none"
    /\ UNCHANGED << solutions, initial, domains, pc, queue, arc, revised, ac3ret, ac3exit, entered, result >>

\* A variant of the undo that gives the cell the domain it had before the
\* assignment.
BtUndoRestoring ==
    /\ pc = "search"
    /\ stack # << >>
    /\ Top.at = "undo"
    /\ domains' = RestoreDomains([ domains EXCEPT ![Top.cell] = Top.pre[Top.cell] ],
                                 Top.removed)
    /\ stack' = SetTop([ Top EXCEPT !.at = "loop", !.undone = TRUE ])
    /\ UNCHANGED << solutions, initial, pc, queue, arc, revised, ac3ret, ac3exit, ret, entered, result >>

\* Lines 198-201: the cell's domain is set from order_domain_values of the
\* current store, then restore_domains puts back what forward_check removed.
BtUndo ==
    /\ pc = "search"
    /\ stack # << >>
    /\ Top.at = "undo"
    /\ \E vs \in OrderDomainValues(domains, Top.cell) :
           domains' = RestoreDomains([ domains EXCEPT ![Top.cell] = Range(vs) ],
                                     Top.removed)
    /\ stack' = SetTop([ Top EXCEPT !.at = "loop", !.undone = TRUE ])
    /\ UNCHANGED << solutions, initial, pc, queue, arc, revised, ac3ret, ac3exit, ret, entered, result >>

\* The for loop is over: return False.
BtExhausted ==
    /\ pc = "search"
    /\ stack # << >>
    /\ Top.at = "loop"
    /\ Top.values = << >>
    /\ stack' = Pop
    /\ ret' = "False"
    /\ entered' = Top.entry
    /\ UNCHANGED << solutions, initial, domains, pc, queue, arc, revised, ac3ret, ac3exit, result >>

----------------------------------------------------------------------------
(* main *)

\* ac3 returned True: main ends, the puzzle was solved by AC-3.
MainAc3Solved ==
    /\ pc = "main"
    /\ ac3ret = "True"
    /\ pc' = "done"
    /\ result' = "solved by ac3"
    /\ UNCHANGED << solutions, initial, domains, queue, arc, revised, ac3ret, ac3exit, stack, ret, entered >>

\* ac3 returned False: main goes on with backtrack on the same store.
MainStartSearch ==
    /\ pc = "main"
    /\ ac3ret = "False"
    /\ pc' = "search"
    /\ UNCHANGED << solutions, initial, domains, queue, arc, revised, ac3ret, ac3exit, stack, ret, entered, result >>

\* backtrack returned True to main.
MainSolved ==
    /\ pc = "search"
    /\ stack = << >>
    /\ ret = "True"
    /\ pc' = "done"
    /\ result' = "solved by backtracking"
    /\ UNCHANGED << solutions, initial, domains, queue, arc, revised, ac3ret, ac3exit, stack, ret, entered >>

\* backtrack returned False to main.
MainNoSolution ==
    /\ pc = "search"
    /\ stack = << >>
    /\ ret = "False"
    /\ pc' = "done"
    /\ result' = "no solution"
    /\ UNCHANGED << solutions, initial, domains, queue, arc, revised, ac3ret, ac3exit, stack, ret, entered >>

----------------------------------------------------------------------------
(* The specification *)

\* main() has built the csp and calls ac3, which fills its queue.
Start ==
    /\ domains = initial
    /\ pc = "ac3"
    /\ queue = GetAllArcs
    /\ arc = NoArc
    /\ revised = FALSE
    /\ ac3ret = "none"
    /\ ac3exit = "none"
    /\ stack = << >>
    /\ ret = "none"
    /\ entered = [ c \in Cells |-> {} ]
    /\ result = "none"
    /\ solutions = Solutions(initial)

\* main() on every puzzle of Puzzles.
Init ==
    /\ \E puzzle \in Puzzles : initial = InitialDomains(puzzle)
    /\ Start

Next ==
    \/ Ac3Unchanged
    \/ Ac3Revised
    \/ Ac3Empty
    \/ Ac3Solved
    \/ Ac3Incomplete
    \/ MainAc3Solved
    \/ MainStartSearch
    \/ BtCallSolved
    \/ BtCallSelect
    \/ BtSkipInvalid
    \/ BtAssign
    \/ BtReturnTrue
    \/ BtReturnFalse
    \/ BtUndo
    \/ BtExhausted
    \/ MainSolved
    \/ MainNoSolution

Spec == Init /\ [][Next]_vars

\* Number of cells of LiveOrder whose content the inputs of FairSpec choose.
NumLive == 1

\* Cells whose content varies from input to input of FairSpec.
LiveOrder == << << 3, 3 >>, << 3, 1 >> >>

LiveCells == { LiveOrder[i] : i \in 1..NumLive }

\* BasePuzzle with any digit, or a blank, in each cell of LiveCells.
LivePuzzles == { [ r \in 1..N |-> [ c \in 1..N |->
                     IF << r - 1, c - 1 >> \in LiveCells THEN g[<< r - 1, c - 1 >>]
                     ELSE BasePuzzle[r][c] ] ] :
                 g \in [ LiveCells -> 0..N ] }

InitLive ==
    /\ \E puzzle \in LivePuzzles : initial = InitialDomains(puzzle)
    /\ Start

\* main() on every puzzle of LivePuzzles.  main is a single thread: it takes
\* its next step as long as it has one.
FairSpec == InitLive /\ [][Next]_vars /\ WF_vars(Next)

----------------------------------------------------------------------------
(* ac3 alone, on stores that are not all-or-one *)

\* Number of cells of FreeOrder that start with an arbitrary set of digits.
NumOpen == 2

OpenCells == { FreeOrder[i] : i \in 1..NumOpen }

\* ac3(csp) on the store of BasePuzzle with any set of digits, the empty one
\* included, in each open cell.
InitAc3 ==
    /\ \E g \in [ OpenCells -> SUBSET Digits ] :
           initial = [ c \in Cells |-> IF c \in OpenCells THEN g[c]
                                      ELSE InitialDomains(BasePuzzle)[c] ]
    /\ Start

NextAc3 ==
    \/ Ac3Unchanged
    \/ Ac3Revised
    \/ Ac3Empty
    \/ Ac3Solved
    \/ Ac3Incomplete

SpecAc3 == InitAc3 /\ [][NextAc3]_vars

\* ac3(csp) as main() calls it on every puzzle of Puzzles.  ac3 is a plain
\* loop of a single thread: it takes its next turn as long as it has one.
FairAc3 == Init /\ [][NextAc3]_vars /\ WF_vars(NextAc3)

----------------------------------------------------------------------------
(* forward_check alone *)

\* forward_check(csp, row, col, value) is about to run for any cell and any
\* digit on the stores of InitAc3; the frame holds the arguments of the call.
InitFc ==
    /\ \E g \in [ OpenCells -> SUBSET Digits ] :
           initial = [ c \in Cells |-> IF c \in OpenCells THEN g[c]
                                      ELSE InitialDomains(BasePuzzle)[c] ]
    /\ domains = initial
    /\ solutions = Solutions(initial)
    /\ pc = "forward_check"
    /\ \E cell \in Cells, value \in Digits :
           stack = << [ cell |-> cell, values |-> << value >>, value |-> 0,
                        removed |-> << >>, at |-> "loop",
                        entry |-> initial, pre |-> initial,
                        undone |-> FALSE, tried |-> 0 ] >>
    /\ queue = << >>
    /\ arc = NoArc
    /\ revised = FALSE
    /\ ac3ret = "none"
    /\ ac3exit = "none"
    /\ ret = "none"
    /\ entered = [ c \in Cells |-> {} ]
    /\ result = "none"

\* forward_check runs and returns (ok, removed): ret holds its first result.
FcApply ==
    /\ pc = "forward_check"
    /\ ret = "none"
    /\ LET value == Head(Top.values)
           fc    == ForwardCheck(domains, Top.cell, value)
       IN  /\ domains' = fc.domains
           /\ ret' = IF fc.success THEN "True" ELSE "False"
           /\ stack' = SetTop([ Top EXCEPT !.values = Tail(@), !.value = value,
                                           !.removed = fc.removed ])
    /\ UNCHANGED << solutions, initial, pc, queue, arc, revised, ac3ret, ac3exit, entered, result >>

NextFc == FcApply

SpecFc == InitFc /\ [][NextFc]_vars

----------------------------------------------------------------------------
(* What the claims speak of *)

\* The rows, the columns and the boxes of the grid, as sets of cells.
Units ==
    { { c \in Cells : c[1] = r } : r \in 0..(N - 1) }
    \cup { { c \in Cells : c[2] = k } : k \in 0..(N - 1) }
    \cup { { c \in Cells : SameBox(c, b) } : b \in Cells }

\* Every cell is a singleton and every unit holds each digit exactly once.
CompleteGrid(dom) ==
    /\ \A c \in Cells : Cardinality(dom[c]) = 1
    /\ \A u \in Units : \A d \in Digits :
           Cardinality({ c \in u : dom[c] = { d } }) = 1

\* Two neighbouring cells are fixed to the same digit.
HasDuplicate(dom) ==
    \E a \in Cells, b \in Cells :
        /\ IsNeighbor(a, b)
        /\ Cardinality(dom[a]) = 1
        /\ dom[a] = dom[b]

RECURSIVE Fill(_, _, _)
\* Can the cells from row-major position i on be given digits of their
\* domains that differ from the digits g gives to their earlier neighbours?
Fill(dom, g, i) ==
    IF i >= NumCells THEN TRUE
    ELSE \E v \in dom[CellAt(i)] :
            /\ \A j \in 0..(i - 1) : IsNeighbor(CellAt(i), CellAt(j)) => g[j + 1] # v
            /\ Fill(dom, Append(g, v), i + 1)

\* The store admits a complete grid: the puzzle is solvable.
Solvable(dom) == Fill(dom, << >>, 0)

\* C1: whenever a call of backtrack has returned True, the store is a
\* complete valid grid: every cell a singleton, every row, column and box
\* holding each digit exactly once.
C1_SearchSound == ret = "True" => CompleteGrid(domains)

\* C2: whenever ac3 has returned True, every cell is a singleton and every
\* row, column and box holds each digit exactly once.
C2_Ac3Sound == ac3ret = "True" => CompleteGrid(domains)

\* C2 witness: ac3 returned True on a store it had to prune.
C2_Witness == ac3ret = "True" /\ domains # initial /\ CompleteGrid(domains)

\* C3: when the grid has two identical fixed digits in one row, column or
\* box, main ends with some domain empty and without reporting a solution.
C3_DuplicateFails ==
    (pc = "done" /\ HasDuplicate(initial))
        => /\ result = "no solution"
           /\ \E c \in Cells : domains[c] = {}

\* C4: when ac3 quiesces on a solvable puzzle with some cell left open, main
\* ends with backtrack's success and a complete valid grid.
C4_SearchComplete ==
    (pc = "done" /\ ac3exit = "incomplete" /\ Solvable(initial))
        => /\ result = "solved by backtracking"
           /\ CompleteGrid(domains)

\* C5: right after the undo of a failed attempt, every neighbour domain that
\* forward_check pruned has the content it had just before the assignment.
C5_UndoExact ==
    (stack # << >> /\ Top.undone)
        => \A k \in 1..Len(Top.removed) :
               domains[Top.removed[k][1]] = Top.pre[Top.removed[k][1]]

\* C6: whenever a call of backtrack has returned False, the whole store is
\* as it was when that call was entered.
C6_FailureRestores == ret = "False" => domains = entered

\* C7: ac3 terminates: its loop ends by the empty queue or by the early
\* return.
C7_Ac3Terminates == <>(pc # "ac3")

\* C7 witness: ac3 has ended with the queue empty after pruning, that is
\* after arcs were appended again.
C7_Witness == pc = "main" /\ queue = << >> /\ domains # initial

\* The value ac3 returns when the queue empties with a cell left open.
IncompleteValue == "False"

\* C8: the value ac3 returns after a domain went empty differs from the one
\* it returns when the queue empties with a cell left open.
C8_TriState == ac3exit = "empty" => ac3ret # IncompleteValue

\* C9: no step of ac3 adds a value to a domain.
C9_MonotonicShrink ==
    [][ pc = "ac3" => \A c \in Cells : domains'[c] \subseteq domains[c] ]_vars

\* C9 witness: revise has removed a value.
C9_Witness == pc = "ac3" /\ revised /\ domains[arc[1]] # initial[arc[1]]

\* C10: a turn of ac3 on the arc (Xi, Xj) removes from Xi exactly Xj's value
\* when Xj is a singleton, changes nothing when Xj has two values or more,
\* and revise returns True exactly when Xi's domain changed.
C10_ReviseSimplification ==
    [][ (pc = "ac3" /\ queue # << >>) =>
          LET xi == Head(queue)[1]
              xj == Head(queue)[2]
          IN  /\ domains' = [ domains EXCEPT ![xi] =
                                IF Cardinality(domains[xj]) = 1
                                THEN @ \ domains[xj] ELSE @ ]
              /\ revised' = (domains'[xi] # domains[xi])
              /\ Cardinality(domains[xj]) >= 2 => (~revised' /\ domains' = domains)
      ]_vars

\* C10 witness: revise has returned False on an arc whose Xj has several
\* values, some of them shared with Xi.
C10_Witness ==
    /\ arc # NoArc
    /\ ~revised
    /\ Cardinality(domains[arc[2]]) >= 2
    /\ domains[arc[1]] \cap domains[arc[2]] # {}

\* The row-major positions of the cells with more than one candidate.
OpenPositions(dom) == { i \in 0..(NumCells - 1) : Cardinality(dom[CellAt(i)]) > 1 }

\* The first cell, in row-major order, whose domain has the least size among
\* the sizes above 1; NoCell when no domain has a size above 1.
MrvCell(dom) ==
    IF OpenPositions(dom) = {} THEN NoCell
    ELSE LET least == Min({ Cardinality(dom[CellAt(i)]) : i \in OpenPositions(dom) })
         IN  CellAt(Min({ i \in OpenPositions(dom) :
                            Cardinality(dom[CellAt(i)]) = least }))

\* The call of backtrack on top of the stack has selected its cell and got
\* its list of values, and its for loop has not started yet.
Fresh == stack # << >> /\ Top.at = "loop" /\ Top.value = 0

\* C11: where backtrack calls find_empty_cell, the result is the first cell
\* in row-major order whose domain size is the least among the sizes above
\* 1, and none exactly when no cell has a size above 1; the cell a call has
\* just selected is that cell of the store the call was entered with, and
\* the store is still the store at entry.
C11_MrvSelection ==
    /\ CanCall =>
           /\ FindEmptyCell(domains) = MrvCell(domains)
           /\ (FindEmptyCell(domains) = NoCell
                  <=> \A c \in Cells : Cardinality(domains[c]) <= 1)
    /\ Fresh =>
           /\ Top.cell = MrvCell(Top.entry)
           /\ domains = Top.entry

\* C11 witness: a call selected a cell that is not the first open cell of the
\* store, although a later cell has as few candidates as the selected one.
C11_Witness ==
    /\ Fresh
    /\ \E a \in Cells, b \in Cells :
           /\ a[1] * N + a[2] < Top.cell[1] * N + Top.cell[2]
           /\ Top.cell[1] * N + Top.cell[2] < b[1] * N + b[2]
           /\ Cardinality(Top.entry[a]) > Cardinality(Top.entry[Top.cell])
           /\ Cardinality(Top.entry[b]) = Cardinality(Top.entry[Top.cell])

\* The number of neighbours of the cell that have more than one candidate and
\* hold the value.
Score(dom, cell, value) ==
    Cardinality({ k \in 1..Len(NeighborsOf(cell)) :
                    /\ Cardinality(dom[NeighborsOf(cell)[k]]) > 1
                    /\ value \in dom[NeighborsOf(cell)[k]] })

\* C12: the list order_domain_values has just returned to a call of
\* backtrack is a permutation of exactly the candidates the selected cell had, and along it
\* the constraint score (the number of neighbours with more than one
\* candidate that hold the value) never decreases.
C12_LcvOrdering ==
    Fresh =>
        /\ Len(Top.values) = Cardinality(Top.entry[Top.cell])
        /\ Range(Top.values) = Top.entry[Top.cell]
        /\ \A i \in 1..(Len(Top.values) - 1) :
               Score(Top.entry, Top.cell, Top.values[i])
                   <= Score(Top.entry, Top.cell, Top.values[i + 1])

\* C12 witness: a call got a list whose first value is the greater digit and
\* has the strictly smaller score.
C12_Witness ==
    /\ Fresh
    /\ Len(Top.values) >= 2
    /\ Top.values[1] > Top.values[2]
    /\ Score(Top.entry, Top.cell, Top.values[1]) < Score(Top.entry, Top.cell, Top.values[2])

\* C13: whenever a call of backtrack has returned True, the base case
\* included, every domain has exactly one value: none is empty, none has
\* several values.
C13_SuccessAssigned ==
    ret = "True" => \A c \in Cells : Cardinality(domains[c]) = 1

StopAt(dom, cell, value) ==
    LET hits == { k \in 1..Len(NeighborsOf(cell)) : dom[NeighborsOf(cell)[k]] = { value } }
    IN  IF hits = {} THEN Len(NeighborsOf(cell)) ELSE Min(hits)

\* The removals forward_check has to record: one per scanned neighbour that
\* held the value, in the order of the scan.
Recorded(dom, cell, value) ==
    LET held(nb) == value \in dom[nb]
        sel == SelectSeq(SubSeq(NeighborsOf(cell), 1, StopAt(dom, cell, value)), held)
    IN  [ i \in 1..Len(sel) |-> << sel[i], value >> ]

\* C15: forward_check scans the neighbours in order up to the first one whose
\* domain becomes empty: every scanned neighbour has lost the value, the
\* record lists exactly the scanned neighbours that held it, later neighbours
\* and all cells that are no neighbours are untouched; it reports failure
\* exactly when a neighbour was emptied, and on success no neighbour holds
\* the value.
C15_ForwardCheck ==
    (pc = "forward_check" /\ ret # "none") =>
        LET cell == Top.cell
            nbs  == NeighborsOf(cell)
            stop == StopAt(initial, cell, Top.value)
        IN  /\ (ret = "False") <=> (\E k \in 1..Len(nbs) : initial[nbs[k]] = { Top.value })
            /\ \A k \in 1..Len(nbs) :
                   domains[nbs[k]] = IF k <= stop THEN initial[nbs[k]] \ { Top.value }
                                     ELSE initial[nbs[k]]
            /\ \A c \in Cells : ~IsNeighbor(cell, c) => domains[c] = initial[c]
            /\ Top.removed = Recorded(initial, cell, Top.value)
            /\ (ret = "True") => \A k \in 1..Len(nbs) : Top.value \notin domains[nbs[k]]
            /\ (ret = "False") => domains[nbs[stop]] = {}

\* C15 witness: forward_check stopped at an emptied neighbour after it had
\* pruned an earlier one, and a later neighbour still holds the value.
C15_Witness ==
    /\ pc = "forward_check"
    /\ ret = "False"
    /\ Len(Top.removed) >= 2
    /\ \E k \in 1..Len(NeighborsOf(Top.cell)) :
           /\ k > StopAt(initial, Top.cell, Top.value)
           /\ Top.value \in domains[NeighborsOf(Top.cell)[k]]

\* C16: whenever the worklist of ac3 has run empty without the empty-domain
\* failure, no cell holds the value of a neighbour whose domain is a
\* singleton.
C16_ArcConsistent ==
    ac3exit \in { "solved", "incomplete" } =>
        \A xi \in Cells, xj \in Cells :
            (IsNeighbor(xi, xj) /\ Cardinality(domains[xj]) = 1)
                => domains[xi] \cap domains[xj] = {}

\* C16 witness: the worklist ran empty with a cell still open, and a cell
\* has lost the value of a neighbour that was itself not a singleton at the
\* start.
C16_Witness ==
    /\ ac3exit = "incomplete"
    /\ \E xi \in Cells, xj \in Cells :
           /\ IsNeighbor(xi, xj)
           /\ Cardinality(initial[xj]) > 1
           /\ Cardinality(domains[xj]) = 1
           /\ domains[xj] \subseteq initial[xi]
           /\ domains[xi] \cap domains[xj] = {}

\* C17: after every step of ac3, every complete assignment that gives
\* neighbouring cells different digits and picks each digit from the cell's
\* initial domain still picks each digit from the cell's current domain; and
\* ac3 does not leave by the empty-domain failure on a store that admits
\* such an assignment.
C17_KeepsSolutions ==
    /\ \A g \in solutions : Within(g, domains)
    /\ ac3exit = "empty" => ~Solvable(initial)

\* C17 witness: ac3 has pruned the store of a puzzle that has a solution.
C17_Witness ==
    /\ pc = "ac3"
    /\ revised
    /\ domains # initial
    /\ solutions # {}

\* C18: every run of main reaches its end, so the search returns after
\* finitely many steps; at every moment the cells selected by the frames on
\* the stack are pairwise distinct and the stack is no deeper than the
\* number of cells.
C18_SearchTerminates ==
    /\ <>(pc = "done")
    /\ [](/\ \A i \in DOMAIN stack, j \in DOMAIN stack :
                 i # j => stack[i].cell # stack[j].cell
           /\ Len(stack) <= NumCells)

\* C18 witness: the search has returned False to main after it had gone
\* through calls with several frames on the stack.
C18_Witness ==
    /\ pc = "search"
    /\ stack = << >>
    /\ ret = "False"
    /\ \E c \in Cells : Cardinality(entered[c]) > 1

\* C19: while the recursive call made for cell = {value} is running, from
\* the success of forward_check until that call has returned, the domain of
\* the frame's cell is exactly {value}.
C19_ActiveStable ==
    \A k \in DOMAIN stack :
        stack[k].at \in { "call", "wait" }
            => domains[stack[k].cell] = { stack[k].value }

\* C19 witness: two calls deeper, after an undo in the innermost frame that
\* put values back into the store, the outer assignment is still in place.
C19_Witness ==
    /\ Len(stack) >= 3
    /\ Top.undone
    /\ Top.removed # << >>
    /\ stack[1].at = "wait"
    /\ domains[stack[1].cell] = { stack[1].value }

\* C20: at every moment of a run of backtrack, and when its outermost call
\* has returned, every cell's domain is a subset of what the cell held when
\* the outermost call started.
C20_NoInvention ==
    /\ stack # << >>
          => \A c \in Cells : domains[c] \subseteq stack[1].entry[c]
    /\ (stack = << >> /\ ret # "none")
          => \A c \in Cells : domains[c] \subseteq entered[c]

\* C20 witness: below the outermost call an undo has put a removed digit
\* back into a neighbour, and the store differs from the one the outermost
\* call started with.
C20_Witness ==
    /\ Len(stack) >= 2
    /\ Top.undone
    /\ domains # stack[1].entry
    /\ \E i \in DOMAIN Top.removed :
           Top.removed[i][2] \in domains[Top.removed[i][1]]
====
